---- MODULE Spec2Model ----
(***************************************************************************)
(* A model of report.py: one run of the EC2 metrics report.  The run       *)
(* reads the AWS config file (get_profiles), lists the instances of every  *)
(* profile (get_all_instances), asks CloudWatch for four metrics of every  *)
(* instance (get_instance_metrics / get_metric_statistics), appends one    *)
(* row per instance to metrics_report, writes the report to a spreadsheet  *)
(* (export_to_excel) and mails it (send_email).                            *)
(*                                                                         *)
(* Python dicts are modelled as sequences of <<key, value>> pairs, in      *)
(* insertion order.  Metric values are written as they are rendered:       *)
(* an average is a decimal string, the sentinel is "N/A", None is "None".  *)
(* An exception is the name of its class.                                  *)
(***************************************************************************)
EXTENDS Integers, Sequences, FiniteSets, TLC

VARIABLES
    pc,             \* where the run is: a position of the __main__ block
    config,         \* the file ~/.aws/config
    all_profiles,   \* __main__: the dict get_profiles returned
    pidx,           \* __main__: position of the loop over all_profiles.items()
    instance_ids,   \* __main__: the list get_all_instances returned
    iidx,           \* __main__: position of the loop over instance_ids
    midx,           \* get_instance_metrics: the next of its four queries
    results,        \* get_instance_metrics: the values its queries returned so far
    response,       \* get_metric_statistics: what the last monitoring call gave
    metrics_report, \* __main__: the rows collected
    file,           \* the file ec2_metrics_report.xlsx on disk
    mailed,         \* the attachments the mail server accepted
    error,          \* the exception that ended the run, and the function it left
    calls,          \* history: the external calls made, in order
    discovered      \* history: the (profile, instance) pairs the listings returned

vars == <<pc, config, all_profiles, pidx, instance_ids, iidx, midx, results,
          response, metrics_report, file, mailed, error, calls, discovered>>

(***************************************************************************)
(* Bounds of the model.                                                    *)
(***************************************************************************)
MaxSections == 2      \* sections of a config file
MaxInstances == 2     \* instances all listings of one run return together
MaxDatapoints == 2    \* datapoints of one monitoring response

SectionNames == {"default", "dev", "prod"}
Regions == {"us-east-1", "eu-west-1"}
InstanceIds == {"i-abc123", "i-def456"}
Averages == {"12.5", "40.2"}

NA == "N/A"
(***************************************************************************)
(* Python dicts and lists.                                                 *)
(***************************************************************************)
Keys(d) == [i \in 1..Len(d) |-> d[i][1]]

Has(d, k) == \E i \in 1..Len(d) : d[i][1] = k

Item(d, k) == d[CHOOSE i \in 1..Len(d) : d[i][1] = k][2]

Get(d, k, default) == IF Has(d, k) THEN Item(d, k) ELSE default

Set(d, k, v) ==
    IF Has(d, k)
    THEN [i \in 1..Len(d) |-> IF d[i][1] = k THEN <<k, v>> ELSE d[i]]
    ELSE Append(d, <<k, v>>)

Range(s) == {s[i] : i \in 1..Len(s)}

SeqsUpTo(S, n) == UNION {[1..k -> S] : k \in 0..n}

Distinct(s) == \A i, j \in 1..Len(s) : i # j => s[i] # s[j]

Returned(v) == [raised |-> "none", value |-> v]

Raised(e) == [raised |-> e, value |-> <<>>]

(***************************************************************************)
(* The exception classes the program imports or meets, each with its base  *)
(* class.  botocore's ClientError (an error answer of the service) derives *)
(* from Exception, not from BotoCoreError.                                  *)
(***************************************************************************)
BaseClass ==
    [NoCredentialsError |-> "BotoCoreError",
     PartialCredentialsError |-> "BotoCoreError",
     EndpointConnectionError |-> "BotoCoreError",
     ProfileNotFound |-> "BotoCoreError",
     BotoCoreError |-> "Exception",
     ClientError |-> "Exception",
     NoSectionError |-> "Exception",
     NoOptionError |-> "Exception",
     PermissionError |-> "Exception",
     FileNotFoundError |-> "Exception",
     SMTPAuthenticationError |-> "Exception",
     SMTPServerDisconnected |-> "Exception"]

RECURSIVE IsInstance(_, _)
IsInstance(e, class) ==
    \/ e = class
    \/ e \in DOMAIN BaseClass /\ IsInstance(BaseClass[e], class)

ApiErrors ==
    {"NoCredentialsError", "PartialCredentialsError", "EndpointConnectionError",
     "ClientError"}

(***************************************************************************)
(* get_profiles: the config file and configparser.                         *)
(***************************************************************************)
Sections ==
    {[name |-> n, options |-> o] :
        n \in SectionNames,
        o \in {<<>>} \cup {<< <<"region", r>> >> : r \in Regions}}

Configs ==
    {[exists |-> FALSE, sections |-> <<>>]} \cup
    {[exists |-> TRUE, sections |-> s] :
        s \in {t \in SeqsUpTo(Sections, MaxSections) :
                  Distinct([i \in 1..Len(t) |-> t[i].name])}}

\* config.read(path): a file that is not there is skipped
ConfigRead(f) == IF f.exists THEN f.sections ELSE <<>>

HasSection(parser, section) == \E i \in 1..Len(parser) : parser[i].name = section

SectionOptions(parser, section) ==
    parser[CHOOSE i \in 1..Len(parser) : parser[i].name = section].options

\* config.get(section, option) with no fallback
ConfigGet(parser, section, option) ==
    IF ~HasSection(parser, section) THEN Raised("NoSectionError")
    ELSE IF ~Has(SectionOptions(parser, section), option) THEN Raised("NoOptionError")
    ELSE Returned(Item(SectionOptions(parser, section), option))

\* config.get(section, option, fallback=value)
ConfigGetFallback(parser, section, option, fallback) ==
    IF ~HasSection(parser, section) THEN fallback
    ELSE Get(SectionOptions(parser, section), option, fallback)

\* the loop body of get_profiles for the sections from position i on; the
\* fallback argument is evaluated before config.get is called
RECURSIVE ProfilesFrom(_, _, _)
ProfilesFrom(parser, i, acc) ==
    IF i > Len(parser) THEN Returned(acc)
    ELSE LET profile == parser[i].name
             fallback == ConfigGet(parser, "default", "region")
         IN  IF fallback.raised # "none" THEN Raised(fallback.raised)
             ELSE ProfilesFrom(parser, i + 1,
                      Set(acc, profile,
                          ConfigGetFallback(parser, profile, "region", fallback.value)))

get_profiles(f) == ProfilesFrom(ConfigRead(f), 1, <<>>)

(***************************************************************************)
(* get_all_instances: the session of a profile and describe_instances.     *)
(***************************************************************************)
Instance(id) == << <<"InstanceId", id>> >>

Reservation(ids) == << <<"Instances", [i \in 1..Len(ids) |-> Instance(ids[i])]>> >>

\* the groupings of a list of instances into reservations: none for no
\* instance, else all in one reservation or each in its own
Groupings(ids) ==
    IF ids = <<>> THEN {<<>>}
    ELSE {<<Reservation(ids)>>, [i \in 1..Len(ids) |-> Reservation(<<ids[i]>>)]}

\* what describe_instances may give when at most n instances are left to list
ListingResponses(n) ==
    {[exception |-> e, body |-> <<>>] : e \in ApiErrors} \cup
    {[exception |-> "none", body |-> << <<"Reservations", g>> >>] :
        g \in UNION {Groupings(ids) :
                 ids \in {l \in SeqsUpTo(InstanceIds, n) : Distinct(l)}}}

\* boto3.Session(profile_name=...): the profile is known to botocore or not
SessionOutcomes == {"none", "ProfileNotFound"}

RECURSIVE InstancesOf(_, _, _)
InstancesOf(reservation_instances, j, instances) ==
    IF j > Len(reservation_instances) THEN instances
    ELSE InstancesOf(reservation_instances, j + 1,
             Append(instances, Item(reservation_instances[j], "InstanceId")))

RECURSIVE Flatten(_, _, _)
Flatten(reservations, i, instances) ==
    IF i > Len(reservations) THEN instances
    ELSE Flatten(reservations, i + 1,
             InstancesOf(Item(reservations[i], "Instances"), 1, instances))

get_all_instances(session, resp) ==
    IF session # "none" THEN Raised(session)
    ELSE IF resp.exception = "none"
         THEN Returned(Flatten(Item(resp.body, "Reservations"), 1, <<>>))
    ELSE IF \/ IsInstance(resp.exception, "NoCredentialsError")
            \/ IsInstance(resp.exception, "PartialCredentialsError")
         THEN Returned(<<>>)
    ELSE IF IsInstance(resp.exception, "BotoCoreError") THEN Returned(<<>>)
    ELSE Raised(resp.exception)

(***************************************************************************)
(* get_instance_metrics and get_metric_statistics.                         *)
(***************************************************************************)
\* the four queries of get_instance_metrics, in the order it makes them,
\* each with the key its value gets in the returned dict
MetricQueries ==
    << [MetricName |-> "CPUUtilization", Namespace |-> "AWS/EC2",
        key |-> "CPU Utilization"],
       [MetricName |-> "mem_used_percent", Namespace |-> "CWAgent",
        key |-> "Memory Utilization"],
       [MetricName |-> "procstat_threads", Namespace |-> "CWAgent",
        key |-> "Threads Running"],
       [MetricName |-> "procstat_processes", Namespace |-> "CWAgent",
        key |-> "Processes Running"] >>

Datapoint(average) == << <<"Average", average>>, <<"Unit", "Percent">> >>

\* what cloudwatch get_metric_statistics may give, its datapoints' averages
\* drawn from A
MetricResponses(A) ==
    {[exception |-> e, body |-> <<>>] : e \in ApiErrors} \cup
    {[exception |-> "none", body |-> b] :
        b \in {<<>>} \cup
              {<< <<"Datapoints", [i \in 1..Len(s) |-> Datapoint(s[i])]>> >> :
                  s \in SeqsUpTo(A, MaxDatapoints)}}

NoCall == [exception |-> "not called", body |-> <<>>]

\* get_metric_statistics without its else branch: no datapoints gives None
get_metric_statistics_no_else(resp) ==
    IF resp.exception = "none"
    THEN IF Has(resp.body, "Datapoints") /\ Item(resp.body, "Datapoints") # <<>>
         THEN Returned(Get(Item(resp.body, "Datapoints")[1], "Average", NA))
         ELSE Returned("None")
    ELSE IF IsInstance(resp.exception, "BotoCoreError") THEN Returned(NA)
    ELSE Raised(resp.exception)

\* get_metric_statistics reading Datapoints[-1] in place of Datapoints[0]
get_metric_statistics_last(resp) ==
    IF resp.exception = "none"
    THEN IF Has(resp.body, "Datapoints") /\ Item(resp.body, "Datapoints") # <<>>
         THEN LET datapoints == Item(resp.body, "Datapoints")
              IN  Returned(Get(datapoints[Len(datapoints)], "Average", NA))
         ELSE Returned(NA)
    ELSE IF IsInstance(resp.exception, "BotoCoreError") THEN Returned(NA)
    ELSE Raised(resp.exception)

get_metric_statistics(resp) ==
    IF resp.exception = "none"
    THEN IF Has(resp.body, "Datapoints") /\ Item(resp.body, "Datapoints") # <<>>
         THEN Returned(Get(Item(resp.body, "Datapoints")[1], "Average", NA))
         ELSE Returned(NA)
    ELSE IF \/ IsInstance(resp.exception, "NoCredentialsError")
            \/ IsInstance(resp.exception, "PartialCredentialsError")
         THEN Returned(NA)
    ELSE IF IsInstance(resp.exception, "BotoCoreError") THEN Returned(NA)
    ELSE Raised(resp.exception)

\* the dict get_instance_metrics returns from the values of its four queries
MetricsDict(values) == [i \in 1..Len(MetricQueries) |-> <<MetricQueries[i].key, values[i]>>]

(***************************************************************************)
(* __main__: the row of one instance.                                      *)
(***************************************************************************)
ReportRow(profile, region, instance_id, metrics) ==
    << <<"Profile", profile>>,
       <<"Region", region>>,
       <<"Instance ID", instance_id>>,
       <<"CPU Utilization", Item(metrics, "CPU Utilization")>>,
       <<"Memory Utilization", Item(metrics, "Memory Utilization")>>,
       <<"Threads Running", Item(metrics, "Threads Running")>>,
       <<"Processes Running", Item(metrics, "Processes Running")>> >>

\* metrics_report.insert(0, row) in place of metrics_report.append(row)
report_insert_first(report, row) == <<row>> \o report

report_append(report, row) == Append(report, row)

(***************************************************************************)
(* export_to_excel: pandas' DataFrame of a list of dicts and its sheet.    *)
(***************************************************************************)
\* the columns of pd.DataFrame(data): the keys of the dicts, each where it
\* is first met
RECURSIVE ColumnsFrom(_, _, _)
ColumnsFrom(data, i, columns) ==
    IF i > Len(data) THEN columns
    ELSE LET new == SelectSeq(Keys(data[i]), LAMBDA k : k \notin Range(columns))
         IN  ColumnsFrom(data, i + 1, columns \o new)

DataFrame(data) ==
    LET columns == ColumnsFrom(data, 1, <<>>)
    IN  [columns |-> columns,
         values |-> [i \in 1..Len(data) |->
                        [j \in 1..Len(columns) |-> Get(data[i], columns[j], "NaN")]]]

\* df.to_excel(filename, index=False): a header row and one row per record;
\* a frame with no columns leaves the sheet without cells
to_excel(df) == IF df.columns = <<>> THEN <<>> ELSE <<df.columns>> \o df.values

NoFile == [exists |-> FALSE, sheet |-> <<>>]

\* export_to_excel catching the error of the write and returning the filename
export_to_excel_swallowing(data, old, outcome) ==
    IF outcome = "none"
    THEN Returned([exists |-> TRUE, sheet |-> to_excel(DataFrame(data))])
    ELSE Returned(old)

\* outcome: the exception the write raises, "none" when the path is writable
export_to_excel(data, old, outcome) ==
    IF outcome = "none"
    THEN Returned([exists |-> TRUE, sheet |-> to_excel(DataFrame(data))])
    ELSE Raised(outcome)

ExportOutcomes == {"none", "PermissionError"}

(***************************************************************************)
(* send_email: the attachment is read, then the message is submitted.      *)
(***************************************************************************)
SmtpOutcomes == {"none", "SMTPAuthenticationError", "SMTPServerDisconnected"}

send_email(attachment_file, outcome) ==
    IF ~attachment_file.exists THEN Raised("FileNotFoundError")
    ELSE IF outcome # "none" THEN Raised(outcome)
    ELSE Returned(attachment_file.sheet)

(***************************************************************************)
(* The run.                                                                *)
(***************************************************************************)
NoError == [exception |-> "none", raised_in |-> "none"]

Call(api, profile, instance, metric) ==
    [api |-> api, profile |-> profile, instance |-> instance, metric |-> metric]

\* the config files a run starts from: none, an empty one, a default section
\* alone, a default section followed by a section with its own region, no
\* default section, a default section without region
RunConfigs ==
    LET default == [name |-> "default", options |-> << <<"region", "us-east-1">> >>]
        bare == [name |-> "default", options |-> <<>>]
        dev == [name |-> "dev", options |-> << <<"region", "eu-west-1">> >>]
    IN  {[exists |-> FALSE, sections |-> <<>>]} \cup
        {[exists |-> TRUE, sections |-> s] :
            s \in {<<>>, <<default>>, <<default, dev>>, <<dev>>, <<bare, dev>>}}

\* the averages the monitoring service reports during a run
RunAverages == {"12.5"}

Init ==
    /\ pc = "get_profiles"
    /\ config \in RunConfigs
    /\ all_profiles = <<>>
    /\ pidx = 1
    /\ instance_ids = <<>>
    /\ iidx = 1
    /\ midx = 1
    /\ results = <<>>
    /\ response = NoCall
    /\ metrics_report = <<>>
    /\ file = NoFile
    /\ mailed = <<>>
    /\ error = NoError
    /\ calls = <<>>
    /\ discovered = <<>>

\* an exception nobody catches ends the process
Crash(e, fn) ==
    /\ pc' = "crashed"
    /\ error' = [exception |-> e, raised_in |-> fn]

\* all_profiles = get_profiles(); metrics_report = []
GetProfiles ==
    /\ pc = "get_profiles"
    /\ LET r == get_profiles(config)
       IN  IF r.raised = "none"
           THEN /\ all_profiles' = r.value
                /\ pc' = "profiles"
                /\ UNCHANGED error
           ELSE /\ Crash(r.raised, "get_profiles")
                /\ UNCHANGED all_profiles
    /\ UNCHANGED <<config, pidx, instance_ids, iidx, midx, results, response,
                   metrics_report, file, mailed, calls, discovered>>

\* for profile, region in all_profiles.items(): instance_ids = get_all_instances(...)
GetAllInstances ==
    /\ pc = "profiles"
    /\ pidx <= Len(all_profiles)
    /\ \E session \in SessionOutcomes,
          resp \in ListingResponses(MaxInstances - Len(discovered)) :
          LET profile == all_profiles[pidx][1]
              r == get_all_instances(session, resp)
          IN  /\ calls' = IF session = "none"
                          THEN Append(calls, Call("describe_instances", profile, "", ""))
                          ELSE calls
              /\ IF r.raised = "none"
                 THEN /\ instance_ids' = r.value
                      /\ iidx' = 1
                      /\ discovered' =
                            discovered \o [i \in 1..Len(r.value) |-> <<profile, r.value[i]>>]
                      /\ pc' = "instances"
                      /\ UNCHANGED error
                 ELSE /\ Crash(r.raised, "get_all_instances")
                      /\ UNCHANGED <<instance_ids, iidx, discovered>>
    /\ UNCHANGED <<config, all_profiles, pidx, midx, results, response,
                   metrics_report, file, mailed>>

\* for instance_id in instance_ids: get_instance_metrics makes its next query
MetricQuery ==
    /\ pc = "instances"
    /\ iidx <= Len(instance_ids)
    /\ midx <= Len(MetricQueries)
    /\ \E resp \in MetricResponses(RunAverages) :
          LET r == get_metric_statistics(resp)
          IN  /\ response' = resp
              /\ calls' = Append(calls,
                     Call("get_metric_statistics", all_profiles[pidx][1],
                          instance_ids[iidx], MetricQueries[midx].MetricName))
              /\ IF r.raised = "none"
                 THEN /\ results' = Append(results, r.value)
                      /\ midx' = midx + 1
                      /\ UNCHANGED <<pc, error>>
                 ELSE /\ Crash(r.raised, "get_metric_statistics")
                      /\ UNCHANGED <<results, midx>>
    /\ UNCHANGED <<config, all_profiles, pidx, instance_ids, iidx, metrics_report,
                   file, mailed, discovered>>

\* get_instance_metrics returns its dict; print_metrics; metrics_report.append
AppendRow ==
    /\ pc = "instances"
    /\ iidx <= Len(instance_ids)
    /\ midx > Len(MetricQueries)
    /\ metrics_report' =
          report_append(metrics_report,
              ReportRow(all_profiles[pidx][1], all_profiles[pidx][2],
                        instance_ids[iidx], MetricsDict(results)))
    /\ iidx' = iidx + 1
    /\ midx' = 1
    /\ results' = <<>>
    /\ response' = NoCall
    /\ UNCHANGED <<pc, config, all_profiles, pidx, instance_ids, file, mailed,
                   error, calls, discovered>>

\* the loop over instance_ids is exhausted: the next profile
NextProfile ==
    /\ pc = "instances"
    /\ iidx > Len(instance_ids)
    /\ pidx' = pidx + 1
    /\ pc' = "profiles"
    /\ UNCHANGED <<config, all_profiles, instance_ids, iidx, midx, results,
                   response, metrics_report, file, mailed, error, calls, discovered>>

\* the loop over all_profiles is exhausted; report_file = export_to_excel(metrics_report)
ExportToExcel ==
    /\ pc = "profiles"
    /\ pidx > Len(all_profiles)
    /\ \E outcome \in ExportOutcomes :
          LET r == export_to_excel(metrics_report, file, outcome)
          IN  IF r.raised = "none"
              THEN /\ file' = r.value
                   /\ pc' = "send"
                   /\ UNCHANGED error
              ELSE /\ Crash(r.raised, "export_to_excel")
                   /\ UNCHANGED file
    /\ calls' = Append(calls, Call("to_excel", "", "", ""))
    /\ UNCHANGED <<config, all_profiles, pidx, instance_ids, iidx, midx, results,
                   response, metrics_report, mailed, discovered>>

\* send_email("EC2 Metrics Report", email_body, recipient_email, report_file)
SendEmail ==
    /\ pc = "send"
    /\ \E outcome \in SmtpOutcomes :
          LET r == send_email(file, outcome)
          IN  IF r.raised = "none"
              THEN /\ mailed' = Append(mailed, r.value)
                   /\ pc' = "done"
                   /\ UNCHANGED error
              ELSE /\ Crash(r.raised, "send_email")
                   /\ UNCHANGED mailed
    /\ calls' = IF file.exists THEN Append(calls, Call("smtp", "", "", "")) ELSE calls
    /\ UNCHANGED <<config, all_profiles, pidx, instance_ids, iidx, midx, results,
                   response, metrics_report, file, discovered>>

Next ==
    \/ GetProfiles
    \/ GetAllInstances
    \/ MetricQuery
    \/ AppendRow
    \/ NextProfile
    \/ ExportToExcel
    \/ SendEmail

Spec == Init /\ [][Next]_vars

(***************************************************************************)
(* The functions on their own: get_profiles on every config file and       *)
(* get_metric_statistics on every monitoring response within the bounds.   *)
(***************************************************************************)
FnInit ==
    /\ pc = "call"
    /\ config \in Configs
    /\ response \in MetricResponses(Averages)
    /\ all_profiles = <<>>
    /\ pidx = 1
    /\ instance_ids = <<>>
    /\ iidx = 1
    /\ midx = 1
    /\ results = <<>>
    /\ metrics_report = <<>>
    /\ file = NoFile
    /\ mailed = <<>>
    /\ error = NoError
    /\ calls = <<>>
    /\ discovered = <<>>

CallGetProfiles ==
    /\ pc = "call"
    /\ LET r == get_profiles(config)
       IN  IF r.raised = "none"
           THEN /\ all_profiles' = r.value
                /\ pc' = "returned get_profiles"
                /\ UNCHANGED error
           ELSE /\ Crash(r.raised, "get_profiles")
                /\ UNCHANGED all_profiles
    /\ UNCHANGED <<config, pidx, instance_ids, iidx, midx, results, response,
                   metrics_report, file, mailed, calls, discovered>>

CallGetMetricStatistics ==
    /\ pc = "call"
    /\ LET r == get_metric_statistics(response)
       IN  IF r.raised = "none"
           THEN /\ results' = <<r.value>>
                /\ pc' = "returned get_metric_statistics"
                /\ UNCHANGED error
           ELSE /\ Crash(r.raised, "get_metric_statistics")
                /\ UNCHANGED results
    /\ UNCHANGED <<config, all_profiles, pidx, instance_ids, iidx, midx, response,
                   metrics_report, file, mailed, calls, discovered>>

FnNext == CallGetProfiles \/ CallGetMetricStatistics

FnSpec == FnInit /\ [][FnNext]_vars

(***************************************************************************)
(* The properties.                                                         *)
(***************************************************************************)
MetricKeys == {MetricQueries[i].key : i \in 1..Len(MetricQueries)}

FixedColumns ==
    <<"Profile", "Region", "Instance ID", "CPU Utilization", "Memory Utilization",
      "Threads Running", "Processes Running">>

IsPrefix(s, t) == Len(s) <= Len(t) /\ \A i \in 1..Len(s) : s[i] = t[i]

CallsOf(api) == SelectSeq(calls, LAMBDA c : c.api = api)

CrashedIn(fn) == pc = "crashed" /\ error.raised_in = fn

HasDatapoints(resp) ==
    /\ resp.exception = "none"
    /\ Has(resp.body, "Datapoints")
    /\ Item(resp.body, "Datapoints") # <<>>

\* a monitoring call that was made and failed or gave no datapoint
FailedOrEmpty(resp) == resp # NoCall /\ ~HasDatapoints(resp)

\* C1: a metric query whose monitoring call fails in any way, or gives no
\* datapoint, returns the sentinel "N/A" and never ends the run.
C1_FailedQueryGivesSentinel ==
    FailedOrEmpty(response) =>
        /\ pc # "crashed"
        /\ results # <<>>
        /\ results[Len(results)] = NA

\* C2: a failure of listing a profile's instances, the creation of its
\* session included, never leaves get_all_instances: the run is never ended
\* by it.
C2_ListingFailureGivesNoInstances == ~CrashedIn("get_all_instances")

\* C3: every row of metrics_report has exactly the seven keys, and each of
\* its four metric values is an average or the sentinel "N/A".
C3_RowsComplete ==
    \A i \in 1..Len(metrics_report) :
        /\ Len(metrics_report[i]) = Len(FixedColumns)
        /\ Range(Keys(metrics_report[i])) = Range(FixedColumns)
        /\ \A k \in MetricKeys : Item(metrics_report[i], k) \in Averages \cup {NA}

\* a row that mixes an average with the sentinel
C3_Witness ==
    \E i \in 1..Len(metrics_report) :
        /\ Item(metrics_report[i], "CPU Utilization") \in Averages
        /\ Item(metrics_report[i], "Memory Utilization") = NA

RowPairs ==
    [i \in 1..Len(metrics_report) |->
        <<Item(metrics_report[i], "Profile"), Item(metrics_report[i], "Instance ID")>>]

ProfilePosition(name) == CHOOSE i \in 1..Len(all_profiles) : all_profiles[i][1] = name

LoopDone ==
    \/ pc = "profiles" /\ pidx > Len(all_profiles)
    \/ pc \in {"send", "done"}
    \/ CrashedIn("export_to_excel")
    \/ CrashedIn("send_email")

C4_DiscoveryOrder ==
    /\ IsPrefix(RowPairs, discovered)
    /\ LoopDone => RowPairs = discovered
    /\ \A i, j \in 1..Len(metrics_report) :
          i < j => ProfilePosition(RowPairs[i][1]) <= ProfilePosition(RowPairs[j][1])
    /\ \A i \in 1..Len(metrics_report) :
          Item(metrics_report[i], "Region") = Item(all_profiles, RowPairs[i][1])

\* C4: when the collection loop is over metrics_report holds one row per
\* discovered (profile, instance) pair, in the order of discovery, and a step
\* only ever appends to it.
C4_OneRowPerPairInOrder ==
    /\ []C4_DiscoveryOrder
    /\ [][IsPrefix(metrics_report, metrics_report')]_vars

\* the loop is over with rows of two profiles
C4_Witness ==
    /\ LoopDone
    /\ Len(metrics_report) = 2
    /\ RowPairs[1][1] # RowPairs[2][1]

\* C5: no run ends before export_to_excel has been called, whatever the
\* profiles and however few instances they have.
C5_RunReachesExport == pc = "crashed" => CallsOf("to_excel") # <<>>

\* the table a reader finds in a sheet: the first row is the header
TableRead(sheet) ==
    IF sheet = <<>> THEN [columns |-> <<>>, rows |-> 0]
    ELSE [columns |-> Head(sheet), rows |-> Len(Tail(sheet))]

\* C6: the exported table, read back, has as many rows as the report and the
\* seven fixed columns as its header, for the empty report too.
C6_ExportRoundTrip ==
    file.exists =>
        /\ TableRead(file.sheet).rows = Len(metrics_report)
        /\ TableRead(file.sheet).columns = FixedColumns

\* C7: send_email is attempted only after export_to_excel wrote the file; a
\* failure of the mail ends the run with the file on disk, one export, one
\* submission and nothing sent.
C7_SendAfterExport ==
    /\ (pc \in {"send", "done"} \/ CrashedIn("send_email")) =>
          /\ file.exists
          /\ file.sheet = to_excel(DataFrame(metrics_report))
          /\ Len(CallsOf("to_excel")) = 1
    /\ CrashedIn("send_email") =>
          /\ Len(CallsOf("smtp")) = 1
          /\ mailed = <<>>
    /\ Len(CallsOf("smtp")) <= 1

\* the mail login failed after the export
C7_Witness ==
    /\ CrashedIn("send_email")
    /\ error.exception = "SMTPAuthenticationError"
    /\ file.exists
    /\ metrics_report # <<>>

GetProfilesOver == pc = "returned get_profiles" \/ CrashedIn("get_profiles")

\* C8: get_profiles maps every section to its own region when it has one,
\* whether or not a default section with a region exists, and to the default
\* section's region otherwise; without a config file it returns an empty
\* mapping.
C8_ProfilesResolved ==
    GetProfilesOver =>
        /\ LET parser == ConfigRead(config)
           IN  \A i \in 1..Len(parser) :
                   Has(parser[i].options, "region") =>
                       /\ Has(all_profiles, parser[i].name)
                       /\ Item(all_profiles, parser[i].name) =
                             Item(parser[i].options, "region")
        /\ ~config.exists => all_profiles = <<>>

MetricStatisticsOver ==
    pc = "returned get_metric_statistics" \/ CrashedIn("get_metric_statistics")

\* C9: for a response with one or more datapoints get_metric_statistics
\* returns the Average of the first, whatever follows it.
C9_FirstDatapoint ==
    (MetricStatisticsOver /\ HasDatapoints(response)) =>
        /\ pc # "crashed"
        /\ results = <<Item(Item(response.body, "Datapoints")[1], "Average")>>

\* two datapoints with different averages, the first returned
C9_Witness ==
    /\ pc = "returned get_metric_statistics"
    /\ HasDatapoints(response)
    /\ Len(Item(response.body, "Datapoints")) >= 2
    /\ Item(response.body, "Datapoints")[1] # Item(response.body, "Datapoints")[2]
    /\ results = <<Item(Item(response.body, "Datapoints")[1], "Average")>>

\* the four queries of every discovered pair, in order
ExpectedQueries ==
    [k \in 1..(Len(MetricQueries) * Len(discovered)) |->
        LET pair == discovered[((k - 1) \div Len(MetricQueries)) + 1]
            query == MetricQueries[((k - 1) % Len(MetricQueries)) + 1]
        IN  Call("get_metric_statistics", pair[1], pair[2], query.MetricName)]

\* C10: when the run is over, each profile was listed once, each discovered
\* instance was asked its four metrics once, in order, and there was at most
\* one export and one mail submission.
C10_EachCallOnce ==
    pc \in {"done", "crashed"} =>
        /\ CallsOf("describe_instances") =
              [i \in 1..Len(all_profiles) |->
                  Call("describe_instances", all_profiles[i][1], "", "")]
        /\ CallsOf("get_metric_statistics") = ExpectedQueries
        /\ Len(CallsOf("to_excel")) <= 1
        /\ Len(CallsOf("smtp")) <= 1

====
